---- MODULE Spec2Model ----
(***************************************************************************)
(* Model of less/ttyin.c: getting input from the keyboard.                 *)
(*                                                                         *)
(* getchr() is modelled in the only configuration of the POSIX branch that *)
(* compiles (__APPLE__ defined, MSDOS_COMPILER 0), with LESSTEST either    *)
(* compiled in or not.  A call runs atomically up to the point where it    *)
(* blocks in iread(); the completion of that read is a step of its own, so *)
(* that keys and signals can arrive while the call is blocked.             *)
(*                                                                         *)
(* char is the signed 8-bit type of the Apple targets: a char holds a      *)
(* value in -128..127, an unsigned char a value in 0..255.                 *)
(***************************************************************************)
EXTENDS Integers, Sequences, FiniteSets, TLC

(***************************************************************************)
(* Bounds of the model.                                                    *)
(***************************************************************************)
MaxKeys == 2        \* events the keyboard device supplies (SpecTty)
FewKeys == 2        \* events the keyboard device supplies (Spec, SpecDashp)
MaxErr == 2         \* events the stderr stream supplies
MaxDashp == 3       \* length of an alternate command string (SpecDashp)
MidDashp == 2        \* length of an alternate command string (SpecOrder)
FewDashp == 1       \* length of an alternate command string (Spec)
MaxCalls == 4       \* getchr calls that return

(***************************************************************************)
(* Program constants.                                                      *)
(***************************************************************************)
NULL == -1                \* the null pointer, as an offset that is no offset
READ_INTR == -2           \* less.h
EOF == -1                 \* stdio.h
QUIT_ERROR == 1           \* less.h
LESS_DUMP_CHAR == 29      \* less.h, CONTROL(']')
NUL_SUBST == 224          \* '\340'
NEWLINE == 10             \* '\n'
ERRBUF_SIZE == 512        \* sizeof(errbuf)
STDERR_FD == 2            \* fd = 2
ENABLE_PROCESSED_INPUT == 1             \* 0x0001
ENABLE_MOUSE_INPUT == 16                \* 0x0010
ENABLE_QUICK_EDIT_MODE == 64            \* 0x0040
ENABLE_EXTENDED_FLAGS == 128            \* 0x0080
ENABLE_VIRTUAL_TERMINAL_INPUT == 512    \* 0x0200
CONIN_HANDLE == 3         \* the handle CreateFile("CONIN$", ...) returns

(***************************************************************************)
(* Input alphabets: the null byte, the dump character, a plain ASCII byte  *)
(* and a byte with the high bit set (which is also the substitute value).  *)
(***************************************************************************)
TtyBytes == {0, LESS_DUMP_CHAR, 113, 224}
ErrBytes == {0, 97}
DashpChars == {98, 200}
FewTtyBytes == {0, 113}
FewDashpChars == {98}

Byte(b) == [k |-> "byte", b |-> b]
EofEv == [k |-> "eof", b |-> 0]
ErrEv == [k |-> "err", b |-> 0]
TtyEvents == {Byte(b) : b \in TtyBytes} \cup {EofEv, ErrEv}
FewTtyEvents == {Byte(b) : b \in FewTtyBytes} \cup {EofEv}
StderrEvents == {Byte(b) : b \in ErrBytes} \cup {EofEv, ErrEv}

SeqsUpTo(S, n) == UNION {[1..m -> S] : m \in 0..n}

Min(a, b) == IF a < b THEN a ELSE b

VARIABLES
    lesstest,               \* build: LESSTEST compiled in
    is_tty,                 \* extern int is_tty
    less_is_more,           \* extern int less_is_more
    active_dashp_command,   \* offset into dashp_buf, or NULL
    dashp_buf,              \* the string active_dashp_command points into
    add_newline,            \* extern int add_newline
    use_stderr,             \* static bool use_stderr
    errbuf,                 \* static char errbuf[512], its filled prefix
    errpos,                 \* static ssize_t errpos
    errbuf_sz,              \* static ssize_t errbuf_sz
    sigs,                   \* extern int sigs
    pc,                     \* "idle", "reading" (blocked in iread), "quit"
    quit_status,            \* argument of quit(), NULL before
    ttyhist,                \* every event the keyboard device supplied
    ttypos,                 \* how many of them iread has consumed
    errhist,                \* every event the stderr stream supplied
    errcons,                \* how many of them (bytes and markers) were read
    rets,                   \* what each returned getchr call returned
    ops,                    \* calls made by the current (or last) getchr call
    install_at,             \* Len(rets) when dashp_buf was installed
    installed_nl,           \* add_newline as installed
    dashp_installed,        \* the alternate command string was supplied
    err_midfail,            \* how stderr became unreadable mid-session
    have_ttyname,           \* build: HAVE_TTYNAME
    ttyin_name,             \* char *ttyin_name (LESSTEST): NULL or set
    open_fds,               \* the descriptors open in the process
    tty,                    \* public int tty
    session,                \* "none", "open" (after open_getchr), "closed"
    attempts,               \* the opens open_tty issued, with their results
    ttyname_res,            \* what ttyname(2) gave: "notcalled", "null", "dev"
    fds_at_open,            \* open_fds when open_tty was entered
    win32c,                 \* build: MSDOS_COMPILER==WIN32C
    init_console_input_mode,   \* static DWORD init_console_input_mode
    base_console_input_mode,   \* public DWORD base_console_input_mode
    mouse_console_input_mode,  \* public DWORD mouse_console_input_mode
    curr_console_input_mode,   \* public DWORD curr_console_input_mode
    console_mode,           \* the input mode the console is actually in
    mode_at_open,           \* console_mode when open_getchr read it
    close_applied,          \* the mode close_getchr set, NULL before
    child,                  \* "none" or "running": a child on the console
    pclosed,                \* pclose has returned at least once
    child_left,             \* console_mode when the last _pclose returned
    pclose_res,             \* what _pclose gave the last pclose
    pclose_ret              \* what the last pclose returned

vars == <<lesstest, is_tty, less_is_more, active_dashp_command, dashp_buf,
          add_newline, use_stderr, errbuf, errpos, errbuf_sz, sigs, pc,
          quit_status, ttyhist, ttypos, errhist, errcons, rets, ops,
          install_at, installed_nl, dashp_installed, err_midfail,
          have_ttyname, ttyin_name, open_fds, tty, session, attempts,
          ttyname_res, fds_at_open, win32c, init_console_input_mode,
          base_console_input_mode, mouse_console_input_mode,
          curr_console_input_mode, console_mode, mode_at_open,
          close_applied, child, pclosed, child_left, pclose_res,
          pclose_ret>>

build_vars == <<lesstest, is_tty, less_is_more>>
dashp_vars == <<active_dashp_command, dashp_buf, add_newline>>
stderr_vars == <<use_stderr, errbuf, errpos, errbuf_sz, errcons, err_midfail>>
ghost_install == <<install_at, installed_nl, dashp_installed>>
kbd_vars == <<have_ttyname, ttyin_name, open_fds, tty, session, attempts,
              ttyname_res, fds_at_open>>
mode_vars == <<init_console_input_mode, base_console_input_mode,
               mouse_console_input_mode, curr_console_input_mode>>
child_vars == <<child, pclosed, child_left, pclose_res, pclose_ret>>
console_vars == <<win32c, mode_vars, console_mode, mode_at_open,
                  close_applied, child_vars>>
kbd_vars_but_session == <<have_ttyname, ttyin_name, open_fds, tty, attempts,
                          ttyname_res, fds_at_open>>
kbd_state == <<kbd_vars, console_vars>>
getchr_vars == <<build_vars, dashp_vars, stderr_vars, sigs, pc, quit_status,
                 ttyhist, ttypos, errhist, rets, ops, ghost_install>>

(***************************************************************************)
(* Conversions.                                                            *)
(***************************************************************************)
\* c = (char) uc
ToChar(uc) == IF uc >= 128 THEN uc - 256 ELSE uc

\* (c & 0xFF), (c & 0377)
Mask_NoMask(c) == c
Mask(c) == c % 256

\* if (c == '\0') c = '\340';
Sanitize_NoSubst(c) == c
Sanitize(c) == IF c = 0 THEN ToChar(NUL_SUBST) ELSE c

\* if (c == LESS_DUMP_CHAR), under #if LESSTEST
IsDumpChar_Never(c) == FALSE
IsDumpChar(c) == lesstest /\ c = LESS_DUMP_CHAR

\* if (result == READ_INTR)
IsIntr_Never(result) == FALSE
IsIntr(result) == result = READ_INTR

\* if (result < 0)
IsFatal_OffByOne(result) == result < -1
IsFatal(result) == result < 0

\* } while (result != 1);
LoopAgain_OnErrorOnly(result) == result < 0
LoopAgain(result) == result # 1

(***************************************************************************)
(* The alternate command string.                                           *)
(***************************************************************************)
\* *active_dashp_command
AltDeref(p) == IF p < Len(dashp_buf) THEN ToChar(dashp_buf[p + 1]) ELSE 0

\* active_dashp_command++
AltNext_NoAdvance(p) == p
AltNext(p) == p + 1

\* the else branch of if (c == '\0'): the character is returned
AltReturns_Never(c) == FALSE
AltReturns(c) == c # 0

\* if (add_newline)
AddsNewline_Always == TRUE
AddsNewline == add_newline # 0

\* the if (active_dashp_command) block is left without a return
AltFallsThrough ==
    \/ active_dashp_command = NULL
    \/ /\ active_dashp_command # NULL
       /\ ~AltReturns(AltDeref(active_dashp_command))
       /\ ~AddsNewline

(***************************************************************************)
(* The stderr fallback.                                                    *)
(***************************************************************************)
\* if (use_stderr && is_tty && less_is_more)
UseStderr_IgnoreFlag == is_tty # 0 /\ less_is_more # 0
UseStderr == use_stderr /\ is_tty # 0 /\ less_is_more # 0

\* if (errpos == errbuf_sz)
NeedMore_Always(pos, sz) == TRUE
NeedMore(pos, sz) == pos = sz

\* if (result <= 0 || (pfd.revents & POLLRDNORM) == 0)
PollFailed(pr) == pr.result <= 0 \/ ~pr.rdnorm

\* if (errpos == 0 || errbuf_sz < 0)
StderrGiveUp_OnEof(pos, sz) == pos = 0 \/ sz <= 0
StderrGiveUp(pos, sz) == pos = 0 \/ sz < 0

ErrPending == SubSeq(errhist, errcons + 1, Len(errhist))
TtyPending == SubSeq(ttyhist, ttypos + 1, Len(ttyhist))

\* Number of leading byte events of a sequence of events.
LeadingBytes(q) ==
    LET others == {i \in 1..Len(q) : q[i].k # "byte"}
    IN  IF others = {} THEN Len(q)
        ELSE (CHOOSE i \in others : \A j \in others : i <= j) - 1

\* poll(&pfd, 1, 0) on stderr: the call may fail (-1) or report only an
\* error condition; it reports POLLRDNORM only when something is pending.
PollOutcomes ==
    {[result |-> -1, rdnorm |-> FALSE], [result |-> 1, rdnorm |-> FALSE]}
    \cup (IF ErrPending = <<>>
          THEN {[result |-> 0, rdnorm |-> FALSE]}
          ELSE {[result |-> 1, rdnorm |-> TRUE]})

\* read(STDERR_FILENO, errbuf, sizeof(errbuf)) with something pending:
\* the possible return values.
ReadCounts ==
    IF Head(ErrPending).k = "byte"
    THEN 1..Min(LeadingBytes(ErrPending), ERRBUF_SIZE)
    ELSE IF Head(ErrPending).k = "eof" THEN {0} ELSE {-1}

\* errbuf after a read that returned n
ErrbufAfterRead(n) ==
    IF n <= 0 THEN errbuf
    ELSE [i \in 1..(IF n > Len(errbuf) THEN n ELSE Len(errbuf)) |->
            IF i <= n THEN ErrPending[i].b ELSE errbuf[i]]

\* if (errbuf_sz > 0) errpos = 0;
ResetPos_Never(n, pos) == pos
ResetPos(n, pos) == IF n > 0 THEN 0 ELSE pos

\* errbuf[pos]: buf is the part of the static array written so far, the
\* rest of it is still zero.
ErrbufAt(buf, pos) == IF pos < Len(buf) THEN buf[pos + 1] ELSE 0

\* events of the stream a read that returned n consumed
ConsumedByRead(n) == IF n <= 0 THEN 1 ELSE n

(***************************************************************************)
(* Init: the state before the first getchr call, the keyboard being open.  *)
(***************************************************************************)
\* Without MSDOS_COMPILER==WIN32C there is no console mode.
NoConsole ==
    /\ win32c = FALSE
    /\ init_console_input_mode = 0
    /\ base_console_input_mode = 0
    /\ mouse_console_input_mode = 0
    /\ curr_console_input_mode = 0
    /\ console_mode = 0
    /\ mode_at_open = 0
    /\ close_applied = NULL
    /\ child = "none"
    /\ pclosed = FALSE
    /\ child_left = 0
    /\ pclose_res = 0
    /\ pclose_ret = 0

\* The state open_getchr leaves when /dev/tty opened as descriptor 3.
KbdOpened ==
    /\ have_ttyname = FALSE
    /\ ttyin_name = NULL
    /\ open_fds = {0, 1, 2, 3}
    /\ tty = 3
    /\ session = "open"
    /\ attempts = <<[dev |-> "/dev/tty", fd |-> 3]>>
    /\ ttyname_res = "notcalled"
    /\ fds_at_open = {0, 1, 2}
    /\ NoConsole

InitGetchr ==
    /\ lesstest \in BOOLEAN
    /\ is_tty \in {0, 1}
    /\ less_is_more \in {0, 1}
    /\ active_dashp_command = NULL
    /\ dashp_buf = <<>>
    /\ add_newline = 0
    /\ use_stderr = TRUE
    /\ errbuf = <<>>
    /\ errpos = 0
    /\ errbuf_sz = 0
    /\ sigs = 0
    /\ pc = "idle"
    /\ quit_status = NULL
    /\ ttyhist = <<>>
    /\ ttypos = 0
    /\ errhist = <<>>
    /\ errcons = 0
    /\ rets = <<>>
    /\ ops = <<>>
    /\ install_at = 0
    /\ installed_nl = 0
    /\ dashp_installed = FALSE
    /\ err_midfail = "none"

Init == InitGetchr /\ KbdOpened

(***************************************************************************)
(* The environment.                                                        *)
(***************************************************************************)
\* The keyboard device gets a byte, an end of stream or an error.
TtySupplies(events, max) ==
    /\ Len(ttyhist) < max
    /\ \E e \in events : ttyhist' = Append(ttyhist, e)
    /\ UNCHANGED <<build_vars, kbd_state, dashp_vars, stderr_vars, sigs, pc, quit_status,
                   ttypos, errhist, rets, ops, ghost_install>>

TtyArrive == TtySupplies(TtyEvents, MaxKeys)
TtyArriveFew == TtySupplies(FewTtyEvents, FewKeys)
TtyArriveOrFail == TtySupplies({Byte(113), ErrEv}, FewKeys)

\* The stderr stream gets a byte, an end of stream or an error.
StderrSupplies(events) ==
    /\ Len(errhist) < MaxErr
    /\ \E e \in events : errhist' = Append(errhist, e)
    /\ UNCHANGED <<build_vars, kbd_state, dashp_vars, stderr_vars, sigs, pc, quit_status,
                   ttyhist, ttypos, rets, ops, ghost_install>>

StderrArrive == StderrSupplies(StderrEvents)
StderrArriveBytes == StderrSupplies({Byte(b) : b \in ErrBytes})
StderrArriveOrEof == StderrSupplies({Byte(97), EofEv})

\* More than errbuf can hold is written to stderr at once.
StderrFlood ==
    /\ errhist = <<>>
    /\ errhist' = [i \in 1..(ERRBUF_SIZE + 1) |-> Byte(97)]
    /\ UNCHANGED <<build_vars, kbd_state, dashp_vars, stderr_vars, sigs, pc,
                   quit_status, ttyhist, ttypos, rets, ops, ghost_install>>

\* A signal handler records an interrupt.
Signal ==
    /\ sigs = 0
    /\ sigs' = 1
    /\ UNCHANGED <<build_vars, kbd_state, dashp_vars, stderr_vars, pc, quit_status,
                   ttyhist, ttypos, errhist, rets, ops, ghost_install>>

\* The command loop handles the pending signals (psignals).
ClearSigs ==
    /\ pc = "idle"
    /\ sigs # 0
    /\ sigs' = 0
    /\ UNCHANGED <<build_vars, kbd_state, dashp_vars, stderr_vars, pc, quit_status,
                   ttyhist, ttypos, errhist, rets, ops, ghost_install>>

\* The alternate command string is supplied (once in a run), with or
\* without the request for a newline after it.
Install(chars, max) ==
    /\ pc = "idle"
    /\ ~dashp_installed
    /\ \E s \in SeqsUpTo(chars, max), nl \in {0, 1} :
        /\ dashp_buf' = s
        /\ add_newline' = nl
        /\ installed_nl' = nl
    /\ active_dashp_command' = 0
    /\ install_at' = Len(rets)
    /\ dashp_installed' = TRUE
    /\ UNCHANGED <<build_vars, kbd_state, stderr_vars, sigs, pc, quit_status,
                   ttyhist, ttypos, errhist, rets, ops>>

InstallDashp == Install(DashpChars, MaxDashp)
InstallDashpFew == Install(FewDashpChars, FewDashp)
InstallDashpMid == Install(DashpChars, MidDashp)

(***************************************************************************)
(* getchr, up to its return or to the point where it blocks in iread.      *)
(***************************************************************************)
Ret(src, val) == [src |-> src, val |-> val]

CanCall == pc = "idle" /\ Len(rets) < MaxCalls

\* The alternate string supplies a character.
getchr_dashp_char ==
    /\ CanCall
    /\ active_dashp_command # NULL
    /\ LET c == AltDeref(active_dashp_command) IN
        /\ AltReturns(c)
        /\ active_dashp_command' = AltNext(active_dashp_command)
        /\ rets' = Append(rets, Ret("dashp", Mask(c)))
    /\ ops' = <<>>
    /\ UNCHANGED <<build_vars, kbd_state, dashp_buf, add_newline, stderr_vars, sigs, pc,
                   quit_status, ttyhist, ttypos, errhist, ghost_install>>

\* The alternate string is exhausted and a newline was asked for.
getchr_dashp_newline ==
    /\ CanCall
    /\ active_dashp_command # NULL
    /\ ~AltReturns(AltDeref(active_dashp_command))
    /\ AddsNewline
    /\ active_dashp_command' = NULL
    /\ add_newline' = 0
    /\ rets' = Append(rets, Ret("newline", Mask(NEWLINE)))
    /\ ops' = <<>>
    /\ UNCHANGED <<build_vars, kbd_state, dashp_buf, stderr_vars, sigs, pc,
                   quit_status, ttyhist, ttypos, errhist, ghost_install>>

\* The top of the loop body: flush(), then the read of the device.
LoopTop_NoFlush == <<"iread">>
LoopTop == <<"flush", "iread">>

\* no_stderr: the first iteration of the loop, up to the blocking read.
EnterLoop(evs) ==
    /\ ops' = evs \o LoopTop
    /\ pc' = "reading"
    /\ rets' = rets

\* The rest of the stderr block, once errbuf is filled or found filled:
\* sz, pos, buf and cons are errbuf_sz, errpos, errbuf and errcons by then.
StderrFinish(sz, pos, buf, cons, evs, fail) ==
    /\ errbuf' = buf
    /\ errbuf_sz' = sz
    /\ errcons' = cons
    /\ IF sz <= 0
       THEN IF StderrGiveUp(pos, sz)
            THEN /\ use_stderr' = FALSE
                 /\ errpos' = pos
                 /\ err_midfail' = fail
                 /\ EnterLoop(evs)
            ELSE /\ use_stderr' = use_stderr
                 /\ errpos' = pos
                 /\ err_midfail' = fail
                 /\ rets' = Append(rets, Ret("stderr_eof", EOF))
                 /\ ops' = evs
                 /\ pc' = pc
       ELSE /\ use_stderr' = use_stderr
            /\ errpos' = pos + 1
            /\ err_midfail' = err_midfail
            /\ rets' = Append(rets, Ret("stderr", Mask(ToChar(ErrbufAt(buf, pos)))))
            /\ ops' = evs
            /\ pc' = pc

\* The stderr fallback is tried.
getchr_stderr ==
    /\ CanCall
    /\ AltFallsThrough
    /\ UseStderr
    /\ active_dashp_command' = NULL
    /\ IF NeedMore(errpos, errbuf_sz)
       THEN \E pr \in PollOutcomes :
              IF PollFailed(pr)
              THEN /\ use_stderr' = FALSE
                   /\ err_midfail' = IF errpos > 0 THEN "poll" ELSE err_midfail
                   /\ EnterLoop(<<"poll">>)
                   /\ UNCHANGED <<errbuf, errpos, errbuf_sz, errcons>>
              ELSE \E n \in ReadCounts :
                     StderrFinish(n, ResetPos(n, errpos),
                                  ErrbufAfterRead(n),
                                  errcons + ConsumedByRead(n),
                                  <<"poll", "read">>,
                                  IF errpos > 0 /\ n <= 0
                                  THEN (IF n = 0 THEN "read0" ELSE "readerr")
                                  ELSE err_midfail)
       ELSE StderrFinish(errbuf_sz, errpos, errbuf, errcons, <<>>, err_midfail)
    /\ UNCHANGED <<build_vars, kbd_state, dashp_buf, add_newline, sigs, quit_status,
                   ttyhist, ttypos, errhist, ghost_install>>

\* Neither the alternate string nor the stderr fallback applies.
getchr_primary ==
    /\ CanCall
    /\ AltFallsThrough
    /\ ~UseStderr
    /\ active_dashp_command' = NULL
    /\ EnterLoop(<<>>)
    /\ UNCHANGED <<build_vars, kbd_state, dashp_buf, add_newline, stderr_vars, sigs,
                   quit_status, ttyhist, ttypos, errhist, ghost_install>>

(***************************************************************************)
(* The blocked iread returns, and the loop body runs on its result.        *)
(***************************************************************************)
\* result of iread(tty, &uc, sizeof(char)): READ_INTR when an interrupt is
\* pending, else what the head of the device queue says.
IreadResult ==
    IF sigs # 0 THEN READ_INTR
    ELSE IF Head(TtyPending).k = "byte" THEN 1
    ELSE IF Head(TtyPending).k = "eof" THEN 0 ELSE -1

\* uc after the iread: the byte read, or whatever the uninitialized
\* variable holds when iread stored nothing.
IreadBytes ==
    IF sigs = 0 /\ Head(TtyPending).k = "byte"
    THEN {Head(TtyPending).b}
    ELSE TtyBytes

\* events of the device queue the iread consumed
IreadConsumes == IF sigs # 0 THEN 0 ELSE 1

getchr_iread ==
    /\ pc = "reading"
    /\ sigs # 0 \/ TtyPending # <<>>
    /\ ttypos' = ttypos + IreadConsumes
    /\ \E uc \in IreadBytes :
        LET result == IreadResult
            c == ToChar(uc)
        IN  IF IsIntr(result)
            THEN /\ rets' = Append(rets, Ret("intr", READ_INTR))
                 /\ pc' = "idle"
                 /\ ops' = ops
                 /\ quit_status' = quit_status
            ELSE IF IsFatal(result)
            THEN /\ pc' = "quit"
                 /\ quit_status' = QUIT_ERROR
                 /\ ops' = Append(ops, "quit")
                 /\ rets' = rets
            ELSE IF IsDumpChar(c)
            THEN \* dump_screen(); result = 0; continue;
                 /\ quit_status' = quit_status
                 /\ IF LoopAgain(0)
                    THEN /\ ops' = Append(ops, "dump_screen") \o LoopTop
                         /\ pc' = "reading"
                         /\ rets' = rets
                    ELSE /\ ops' = Append(ops, "dump_screen")
                         /\ pc' = "idle"
                         /\ rets' = Append(rets, Ret("tty", Mask(c)))
            ELSE /\ quit_status' = quit_status
                 /\ IF LoopAgain(result)
                    THEN /\ ops' = ops \o LoopTop
                         /\ pc' = "reading"
                         /\ rets' = rets
                    ELSE /\ ops' = ops
                         /\ pc' = "idle"
                         /\ rets' = Append(rets, Ret("tty", Mask(Sanitize(c))))
    /\ UNCHANGED <<build_vars, kbd_state, dashp_vars, stderr_vars, sigs, ttyhist,
                   errhist, ghost_install>>

(***************************************************************************)
(* open_tty, open_getchr, close_getchr and pclose.                         *)
(* open() returns the lowest descriptor that is not open, or -1.           *)
(***************************************************************************)
LowestFree(fds) ==
    CHOOSE f \in 0..Cardinality(fds) : f \notin fds /\ \A g \in 0..(f - 1) : g \in fds

\* open_tty_device(dev): open(dev, OPEN_READ)
open_tty_device(fds, ok) == IF ok THEN LowestFree(fds) ELSE -1

\* the descriptor table after an open that returned fd
FdsAfter(fds, fd) == IF fd >= 0 THEN fds \cup {fd} ELSE fds

\* if (fd < 0)
NeedsOpen_Never(fd) == FALSE
NeedsOpen_Always(fd) == TRUE
NeedsOpen(fd) == fd < 0

\* ttyin_name: NULL, or a pointer to the name of the scripted device
TtyinNames == {NULL, 1}

\* is_lesstest(), under #if LESSTEST
is_lesstest == lesstest /\ ttyin_name # NULL

Attempt(dev, fd) == [dev |-> dev, fd |-> fd]

\* open_tty, given whether ttyname(2) resolves and whether each open the
\* function may issue succeeds: the descriptor returned, the opens issued,
\* the descriptor table afterwards and whether ttyname was called.
open_tty(resolves, ok_name, ok_ttyname, ok_devtty) ==
    LET fd0 == -1
        tryA == is_lesstest
        fd1 == IF tryA THEN open_tty_device(open_fds, ok_name) ELSE fd0
        fds1 == FdsAfter(open_fds, IF tryA THEN fd1 ELSE -1)
        log1 == IF tryA THEN <<Attempt("ttyin_name", fd1)>> ELSE <<>>
        askB == have_ttyname /\ NeedsOpen(fd1)
        tryB == askB /\ resolves
        fd2 == IF tryB THEN open_tty_device(fds1, ok_ttyname) ELSE fd1
        fds2 == FdsAfter(fds1, IF tryB THEN fd2 ELSE -1)
        log2 == IF tryB THEN Append(log1, Attempt("ttyname", fd2)) ELSE log1
        tryC == NeedsOpen(fd2)
        fd3 == IF tryC THEN open_tty_device(fds2, ok_devtty) ELSE fd2
        fds3 == FdsAfter(fds2, IF tryC THEN fd3 ELSE -1)
        log3 == IF tryC THEN Append(log2, Attempt("/dev/tty", fd3)) ELSE log2
        fd4 == IF NeedsOpen(fd3) THEN STDERR_FD ELSE fd3
    IN  [fd |-> fd4, log |-> log3, fds |-> fds3,
         tn |-> IF ~askB THEN "notcalled" ELSE IF resolves THEN "dev" ELSE "null"]

RECURSIVE SumOf(_)
SumOf(S) == IF S = {} THEN 0 ELSE LET x == CHOOSE y \in S : TRUE IN x + SumOf(S \ {x})

\* the bits open_getchr touches, and ENABLE_LINE_INPUT, ENABLE_ECHO_INPUT
ModeBits == {ENABLE_PROCESSED_INPUT, 2, 4, ENABLE_MOUSE_INPUT,
             ENABLE_QUICK_EDIT_MODE, ENABLE_EXTENDED_FLAGS,
             ENABLE_VIRTUAL_TERMINAL_INPUT}

ConsoleModes == {SumOf(S) : S \in SUBSET ModeBits}

\* what a child may leave behind: nothing set, the cooked defaults with
\* quick edit, or VT input
ChildModes == {0, SumOf(ModeBits \ {ENABLE_MOUSE_INPUT, ENABLE_VIRTUAL_TERMINAL_INPUT}),
               SumOf({ENABLE_PROCESSED_INPUT, ENABLE_VIRTUAL_TERMINAL_INPUT})}

\* results of _pclose: the child's exit status, or -1
CloseResults == {-1, 0, 1}

\* Bitwise operations on DWORD values.
RECURSIVE BitOr(_, _)
BitOr(a, b) ==
    IF a = 0 THEN b
    ELSE IF b = 0 THEN a
    ELSE (IF a % 2 = 1 \/ b % 2 = 1 THEN 1 ELSE 0) + 2 * BitOr(a \div 2, b \div 2)

\* a & ~b
RECURSIVE BitAndNot(_, _)
BitAndNot(a, b) ==
    IF a = 0 THEN 0
    ELSE (IF a % 2 = 1 /\ b % 2 = 0 THEN 1 ELSE 0) + 2 * BitAndNot(a \div 2, b \div 2)

\* base mode: ensure we get ctrl-C events, and don't get VT input.
BaseMode_KeepsVT(init) == BitOr(init, ENABLE_PROCESSED_INPUT)
BaseMode(init) ==
    BitAndNot(BitOr(init, ENABLE_PROCESSED_INPUT), ENABLE_VIRTUAL_TERMINAL_INPUT)

\* mouse mode: enable mouse and disable quick edit.
MouseMode(base) ==
    BitAndNot(BitOr(BitOr(base, ENABLE_MOUSE_INPUT), ENABLE_EXTENDED_FLAGS),
              ENABLE_QUICK_EDIT_MODE)

\* close_getchr: SetConsoleMode(tty, init_console_input_mode)
CloseMode_Current == curr_console_input_mode
CloseMode == init_console_input_mode

\* pclose: SetConsoleMode(tty, curr_console_input_mode)
PcloseMode_Initial == init_console_input_mode
PcloseMode == curr_console_input_mode

\* open_getchr under MSDOS_COMPILER==WIN32C
open_console ==
    /\ tty' = CONIN_HANDLE
    /\ init_console_input_mode' = console_mode
    /\ base_console_input_mode' = BaseMode(console_mode)
    /\ mouse_console_input_mode' = MouseMode(BaseMode(console_mode))
    /\ curr_console_input_mode' = BaseMode(console_mode)
    /\ console_mode' = BaseMode(console_mode)
    /\ mode_at_open' = console_mode
    /\ UNCHANGED <<attempts, open_fds, ttyname_res>>

\* open_getchr otherwise: tty = open_tty();
open_posix ==
    /\ \E resolves \in {r \in BOOLEAN : r => STDERR_FD \in open_fds},
          ok_name \in BOOLEAN, ok_ttyname \in BOOLEAN, ok_devtty \in BOOLEAN :
        LET r == open_tty(resolves, ok_name, ok_ttyname, ok_devtty) IN
        /\ tty' = r.fd
        /\ attempts' = r.log
        /\ open_fds' = r.fds
        /\ ttyname_res' = r.tn
    /\ UNCHANGED <<mode_vars, console_mode, mode_at_open>>

open_getchr ==
    /\ session = "none"
    /\ IF win32c THEN open_console ELSE open_posix
    /\ fds_at_open' = open_fds
    /\ session' = "open"
    /\ UNCHANGED <<getchr_vars, have_ttyname, ttyin_name, win32c,
                   close_applied, child_vars>>

\* close_getchr: restores the console mode under MSDOS_COMPILER==WIN32C,
\* does nothing otherwise.
close_getchr ==
    /\ session = "open"
    /\ session' = "closed"
    /\ IF win32c
         THEN console_mode' = CloseMode /\ close_applied' = CloseMode
         ELSE UNCHANGED <<console_mode, close_applied>>
    /\ UNCHANGED <<getchr_vars, kbd_vars_but_session, win32c, mode_vars,
                   mode_at_open, child_vars>>

\* init_mouse / deinit_mouse: switch the session to mouse or to base mode.
SetMode(mode) ==
    /\ win32c
    /\ session = "open"
    /\ curr_console_input_mode' = mode
    /\ console_mode' = mode
    /\ UNCHANGED <<getchr_vars, kbd_vars, win32c, init_console_input_mode,
                   base_console_input_mode, mouse_console_input_mode,
                   mode_at_open, close_applied, child_vars>>

init_mouse == SetMode(mouse_console_input_mode)

deinit_mouse == SetMode(base_console_input_mode)

\* popen: a child process sharing the console starts.
popen ==
    /\ win32c
    /\ session = "open"
    /\ child = "none"
    /\ child' = "running"
    /\ UNCHANGED <<getchr_vars, kbd_vars, win32c, mode_vars, console_mode,
                   mode_at_open, close_applied, pclosed, child_left,
                   pclose_res, pclose_ret>>

\* The child (or the shell that runs it) resets the console mode.
child_resets_mode ==
    /\ child = "running"
    /\ \E m \in ChildModes : console_mode' = m
    /\ UNCHANGED <<getchr_vars, kbd_vars, win32c, mode_vars, mode_at_open,
                   close_applied, child_vars>>

\* pclose: result = _pclose(f); SetConsoleMode(...); return result;
pclose ==
    /\ win32c
    /\ session = "open"
    /\ child = "running"
    /\ \E result \in CloseResults :
        /\ pclose_res' = result
        /\ pclose_ret' = result
    /\ child_left' = console_mode
    /\ console_mode' = PcloseMode
    /\ child' = "none"
    /\ pclosed' = TRUE
    /\ UNCHANGED <<getchr_vars, kbd_vars, win32c, mode_vars, mode_at_open,
                   close_applied>>

(***************************************************************************)
(* SpecOpen: opening the keyboard, for every build, every set of standard  *)
(* descriptors the process may have inherited and every result of the      *)
(* opens.                                                                  *)
(***************************************************************************)
InitOpen ==
    /\ InitGetchr
    /\ is_tty = 0
    /\ less_is_more = 0
    /\ have_ttyname \in BOOLEAN
    /\ ttyin_name \in (IF lesstest THEN TtyinNames ELSE {NULL})
    /\ open_fds \in SUBSET {0, 1, STDERR_FD}
    /\ tty = 0
    /\ session = "none"
    /\ attempts = <<>>
    /\ ttyname_res = "notcalled"
    /\ fds_at_open = {}
    /\ NoConsole

NextOpen ==
    \/ open_getchr
    \/ close_getchr

SpecOpen == InitOpen /\ [][NextOpen]_vars

(***************************************************************************)
(* SpecConsole: the keyboard session of the MSDOS_COMPILER==WIN32C build,  *)
(* for every input mode the console may be in when less starts.            *)
(***************************************************************************)
InitConsole ==
    /\ InitGetchr
    /\ lesstest = FALSE
    /\ is_tty = 0
    /\ less_is_more = 0
    /\ have_ttyname = FALSE
    /\ ttyin_name = NULL
    /\ open_fds = {0, 1, STDERR_FD}
    /\ tty = 0
    /\ session = "none"
    /\ attempts = <<>>
    /\ ttyname_res = "notcalled"
    /\ fds_at_open = {}
    /\ win32c = TRUE
    /\ console_mode \in ConsoleModes
    /\ init_console_input_mode = 0
    /\ base_console_input_mode = 0
    /\ mouse_console_input_mode = 0
    /\ curr_console_input_mode = 0
    /\ mode_at_open = 0
    /\ close_applied = NULL
    /\ child = "none"
    /\ pclosed = FALSE
    /\ child_left = 0
    /\ pclose_res = 0
    /\ pclose_ret = 0

NextConsole ==
    \/ open_getchr
    \/ init_mouse
    \/ deinit_mouse
    \/ popen
    \/ child_resets_mode
    \/ pclose
    \/ close_getchr

SpecConsole == InitConsole /\ [][NextConsole]_vars

(***************************************************************************)
(* Spec: the three sources together, over small alphabets, with the       *)
(* conditions of the stderr fallback true and no signal.  (A run in which  *)
(* the first poll fails goes on as one without the fallback.)              *)
(***************************************************************************)
InitAll == Init /\ is_tty = 1 /\ less_is_more = 1

Next ==
    \/ TtyArriveFew
    \/ StderrArrive
    \/ InstallDashpFew
    \/ getchr_dashp_char
    \/ getchr_dashp_newline
    \/ getchr_stderr
    \/ getchr_primary
    \/ getchr_iread

Spec == InitAll /\ [][Next]_vars

(***************************************************************************)
(* SpecTty: the keyboard device alone (the stderr fallback does not apply  *)
(* and no alternate string is supplied), over every kind of device event.  *)
(***************************************************************************)
InitTty == Init /\ is_tty = 0

NextTty ==
    \/ TtyArrive
    \/ Signal
    \/ ClearSigs
    \/ getchr_primary
    \/ getchr_iread

SpecTty == InitTty /\ [][NextTty]_vars

(***************************************************************************)
(* SpecDashp: alternate command strings, with a silent stderr stream.      *)
(***************************************************************************)
NextDashp ==
    \/ TtyArriveFew
    \/ InstallDashp
    \/ getchr_dashp_char
    \/ getchr_dashp_newline
    \/ getchr_stderr
    \/ getchr_primary
    \/ getchr_iread

SpecDashp == Init /\ [][NextDashp]_vars

(***************************************************************************)
(* SpecOrder: the three sources together, the alternate string of up to    *)
(* MidDashp characters over two values, stderr supplying bytes only (it    *)
(* is left when a poll fails), LESSTEST not compiled in.                   *)
(***************************************************************************)
InitOrder == InitAll /\ lesstest = FALSE

NextOrder ==
    \/ TtyArriveFew
    \/ StderrArriveBytes
    \/ InstallDashpMid
    \/ getchr_dashp_char
    \/ getchr_dashp_newline
    \/ getchr_stderr
    \/ getchr_primary
    \/ getchr_iread

SpecOrder == InitOrder /\ [][NextOrder]_vars

(***************************************************************************)
(* SpecTerm: the end of the alternate string with every way the read path  *)
(* behind it can end: bytes and end of stream on stderr, bytes and errors  *)
(* on the device, interrupts.                                              *)
(***************************************************************************)
NextTerm ==
    \/ TtyArriveOrFail
    \/ StderrArriveOrEof
    \/ Signal
    \/ ClearSigs
    \/ InstallDashpFew
    \/ getchr_dashp_char
    \/ getchr_dashp_newline
    \/ getchr_stderr
    \/ getchr_primary
    \/ getchr_iread

SpecTerm == InitOrder /\ [][NextTerm]_vars

(***************************************************************************)
(* SpecErrbuf: the stderr fallback alone, the keyboard device silent and   *)
(* no alternate string, with streams longer than errbuf.                   *)
(***************************************************************************)
NextErrbuf ==
    \/ StderrFlood
    \/ StderrArrive
    \/ getchr_stderr

SpecErrbuf == InitAll /\ [][NextErrbuf]_vars

TypeOK ==
    /\ pc \in {"idle", "reading", "quit"}
    /\ errpos >= 0
    /\ ttypos <= Len(ttyhist)
    /\ errcons <= Len(errhist)

(***************************************************************************)
(* Vocabulary of the properties.                                           *)
(***************************************************************************)
\* The returns that came from one source, and their values.
Returned(src) == SelectSeq(rets, LAMBDA r : r.src = src)
Vals(seq) == [i \in 1..Len(seq) |-> seq[i].val]
LastRet == rets[Len(rets)]

\* This step is the blocked iread taking an event of the given kind.
DevDelivers(kind) ==
    /\ pc = "reading"
    /\ ttypos' = ttypos + 1
    /\ ttyhist[ttypos + 1].k = kind

DevDeliversByte(b) == DevDelivers("byte") /\ ttyhist[ttypos + 1].b = b

\* This step is a step of getchr.
GetchrSteps == pc' # pc \/ rets' # rets \/ ops' # ops \/ ttypos' # ttypos

\* This step is (the start of) a getchr call the alternate string does not
\* serve.
CallPastDashp == pc = "idle" /\ AltFallsThrough /\ GetchrSteps

\* Bytes read into errbuf and not yet delivered.
ErrbufLeft ==
    IF errbuf_sz > 0 THEN SubSeq(errbuf, errpos + 1, errbuf_sz) ELSE <<>>

\* The bytes among the first n events of a history.
BytesOf(hist, n) ==
    LET ev == SelectSeq(SubSeq(hist, 1, n), LAMBDA e : e.k = "byte")
    IN  [i \in 1..Len(ev) |-> ev[i].b]

(***************************************************************************)
(* C1: getchr never returns 0, whatever the source of the character.       *)
(* Stated as claimed; the stderr fallback returns a null byte as 0.        *)
(***************************************************************************)
C1_NeverReturnsNull == \A i \in 1..Len(rets) : rets[i].val # 0

(***************************************************************************)
(* C2: when the device read succeeds with the byte 0, the getchr call that *)
(* read it returns 0xE0.                                                   *)
(***************************************************************************)
C2_DeviceNullIsE0 ==
    [][DevDeliversByte(0) =>
        pc' = "idle" /\ rets' = Append(rets, Ret("tty", 224))]_vars

C2_Witness ==
    /\ ttypos >= 1
    /\ ttyhist[ttypos] = Byte(0)
    /\ pc = "idle"
    /\ rets # <<>>
    /\ LastRet = Ret("tty", 224)

(***************************************************************************)
(* C3: every byte other than 0 that the device read delivers is returned   *)
(* unchanged by the call that read it.  As claimed (C3_EveryByteReturned)  *)
(* this fails for LESS_DUMP_CHAR when LESSTEST is compiled in; it holds    *)
(* for every other byte (C3_ByteReturnedUnlessDump).                       *)
(***************************************************************************)
C3_EveryByteReturned ==
    [][\A b \in TtyBytes \ {0} :
        DevDeliversByte(b) =>
            pc' = "idle" /\ rets' = Append(rets, Ret("tty", b))]_vars

C3_ByteReturnedUnlessDump ==
    [][\A b \in TtyBytes \ {0} :
        DevDeliversByte(b) /\ ~(lesstest /\ b = LESS_DUMP_CHAR) =>
            pc' = "idle" /\ rets' = Append(rets, Ret("tty", b))]_vars

C3_Witness ==
    /\ ttypos = 2
    /\ ttyhist = <<Byte(224), Byte(113)>>
    /\ rets = <<Ret("tty", 224), Ret("tty", 113)>>

(***************************************************************************)
(* C4: after a string s of length n is installed with add_newline set, the *)
(* next n calls return s[1..n] in order, call n+1 returns '\n' and leaves  *)
(* active_dashp_command NULL and add_newline 0, and the calls after it get *)
(* their result from the real input path.                                  *)
(***************************************************************************)
C4_DashpThenNewline ==
    dashp_installed /\ installed_nl = 1 =>
        LET n == Len(dashp_buf)
            k == Len(rets) - install_at
        IN  /\ \A j \in 1..k :
                LET r == rets[install_at + j] IN
                /\ j <= n => r = Ret("dashp", dashp_buf[j])
                /\ j = n + 1 => r = Ret("newline", 10)
                /\ j >= n + 2 => r.src \in {"stderr", "stderr_eof", "tty", "intr"}
            /\ k <= n => active_dashp_command = k /\ add_newline = 1
            /\ k >= n + 1 => active_dashp_command = NULL /\ add_newline = 0
            /\ pc = "reading" => k >= n + 1

C4_Witness ==
    /\ dashp_installed
    /\ installed_nl = 1
    /\ dashp_buf = <<98, 200>>
    /\ Len(rets) = install_at + 4
    /\ LastRet.src = "tty"

(***************************************************************************)
(* C5: while active_dashp_command points at a non-null character, a call   *)
(* returns that character and does nothing else: no flush, no poll or read *)
(* of stderr, no read of the device; the device queue, errbuf, errpos,     *)
(* errbuf_sz and use_stderr are unchanged.                                 *)
(***************************************************************************)
C5_DashpCharNoIO ==
    [][(/\ pc = "idle"
        /\ active_dashp_command # NULL
        /\ active_dashp_command < Len(dashp_buf)
        /\ GetchrSteps)
       => /\ rets' = Append(rets, Ret("dashp", dashp_buf[active_dashp_command + 1]))
          /\ ops' = <<>>
          /\ pc' = "idle"
          /\ UNCHANGED <<ttyhist, ttypos, errhist, errcons, errbuf, errpos,
                         errbuf_sz, use_stderr>>]_vars

C5_Witness ==
    /\ rets # <<>>
    /\ LastRet.src = "dashp"
    /\ ops = <<>>
    /\ use_stderr
    /\ ErrbufLeft # <<>>
    /\ TtyPending # <<>>

(***************************************************************************)
(* C6: an interrupt signalled while getchr is blocked in the device read   *)
(* makes that call return READ_INTR without another flush or read, and     *)
(* consumes nothing from the device; a byte the device read delivers to a  *)
(* call is always the oldest one not yet consumed, so a byte that arrived  *)
(* with the interrupt is returned later, in its place.                     *)
(***************************************************************************)
C6_InterruptKeepsBytes ==
    [][/\ (pc = "reading" /\ sigs # 0 /\ GetchrSteps)
          => /\ pc' = "idle"
             /\ rets' = Append(rets, Ret("intr", READ_INTR))
             /\ ops' = ops
             /\ ttypos' = ttypos
             /\ ttyhist' = ttyhist
       /\ (rets' # rets /\ rets'[Len(rets')].src = "tty")
          => /\ sigs = 0
             /\ ttypos' = ttypos + 1
             /\ ttyhist' = ttyhist
             /\ ttyhist[ttypos + 1].k = "byte"
             /\ rets'[Len(rets')].val =
                  (IF ttyhist[ttypos + 1].b = 0 THEN 224 ELSE ttyhist[ttypos + 1].b)]_vars

C6_Witness ==
    /\ Len(rets) = 2
    /\ rets[1].src = "intr"
    /\ rets[2] = Ret("tty", 113)
    /\ ttyhist[1] = Byte(113)
    /\ ttypos = 1

(***************************************************************************)
(* C7: a fatal result of the device read ends in quit(QUIT_ERROR): nothing *)
(* is returned, and after it getchr makes no further call and is not       *)
(* entered again.                                                          *)
(***************************************************************************)
C7_FatalQuits ==
    [][/\ DevDelivers("err")
          => /\ pc' = "quit"
             /\ quit_status' = QUIT_ERROR
             /\ rets' = rets
             /\ ops' = Append(ops, "quit")
       /\ pc = "quit"
          => UNCHANGED <<pc, quit_status, rets, ops, ttypos, errcons, errpos,
                         errbuf_sz, use_stderr, active_dashp_command>>]_vars

C7_Witness ==
    /\ pc = "quit"
    /\ quit_status = QUIT_ERROR
    /\ ttyhist[ttypos] = ErrEv
    /\ TtyPending # <<>>

(***************************************************************************)
(* C8: what getchr does when the device read reports end of stream.  As    *)
(* claimed (C8_EofReturned), the call returns an end-of-stream result      *)
(* instead of reading again; in the code (C8_EofReadsAgain) the call does  *)
(* not return: it flushes and reads the device again.                      *)
(***************************************************************************)
C8_EofReturned ==
    [][DevDelivers("eof") =>
        /\ pc' = "idle"
        /\ Len(rets') = Len(rets) + 1
        /\ ops' = ops]_vars

C8_EofReadsAgain ==
    [][DevDelivers("eof") =>
        /\ pc' = "reading"
        /\ rets' = rets
        /\ \/ ops' = ops \o <<"flush", "iread">>
           \/ lesstest /\ ops' = ops \o <<"dump_screen", "flush", "iread">>]_vars

C8_Witness ==
    /\ pc = "reading"
    /\ ttypos >= 1
    /\ ttyhist[ttypos] = EofEv
    /\ rets = <<>>

(***************************************************************************)
(* C9: once stderr became unreadable after bytes were delivered from it,   *)
(* every later call that the alternate string does not serve reads the     *)
(* keyboard device without touching stderr, and use_stderr stays false.    *)
(* As claimed (C9_UnreadableMeansDevice) for a failed poll, a read error   *)
(* and a read of 0; the code does it (C9_FailedMeansDevice) for a failed   *)
(* poll and a read error.                                                  *)
(***************************************************************************)
C9_UnreadableMeansDevice ==
    [][/\ err_midfail' # "none" => ~use_stderr'
       /\ (err_midfail # "none" /\ CallPastDashp)
          => pc' = "reading" /\ ops' = <<"flush", "iread">> /\ rets' = rets
       /\ ~use_stderr => ~use_stderr']_vars

C9_FailedMeansDevice ==
    [][/\ err_midfail' \in {"poll", "readerr"} => ~use_stderr'
       /\ (err_midfail \in {"poll", "readerr"} /\ CallPastDashp)
          => pc' = "reading" /\ ops' = <<"flush", "iread">> /\ rets' = rets
       /\ ~use_stderr => ~use_stderr']_vars

C9_Witness ==
    /\ err_midfail \in {"poll", "readerr"}
    /\ Len(Returned("stderr")) >= 1
    /\ Len(Returned("tty")) >= 1
    /\ pc = "reading"
    /\ ops = <<"flush", "iread">>
    /\ ErrPending # <<>>

(***************************************************************************)
(* C10: the characters returned from one source are those the source       *)
(* supplied, in its order and each once; and the keyboard device is read   *)
(* in place of stderr only when errbuf holds no undelivered byte.          *)
(***************************************************************************)
C10_SourceOrder ==
    /\ LET got == Vals(Returned("tty"))
           fed == SelectSeq(BytesOf(ttyhist, ttypos),
                            LAMBDA b : ~(lesstest /\ b = LESS_DUMP_CHAR))
       IN  /\ Len(got) = Len(fed)
           /\ \A i \in 1..Len(got) : got[i] = (IF fed[i] = 0 THEN 224 ELSE fed[i])
    /\ Vals(Returned("stderr")) \o ErrbufLeft = BytesOf(errhist, errcons)
    /\ LET got == Vals(Returned("dashp"))
       IN  /\ Len(got) <= Len(dashp_buf)
           /\ got = SubSeq(dashp_buf, 1, Len(got))
    /\ (pc = "reading" \/ ~use_stderr) => ErrbufLeft = <<>>

\* A byte of stderr, then the two different characters of the alternate
\* string in their order, then, stderr given up with errbuf empty, a byte
\* of the device.
C10_Witness ==
    /\ dashp_buf = <<98, 200>>
    /\ Vals(Returned("dashp")) = <<98, 200>>
    /\ Len(Returned("stderr")) = 1
    /\ Len(Returned("tty")) = 1
    /\ LastRet.src = "tty"
    /\ ~use_stderr

(***************************************************************************)
(* Vocabulary of the open_tty claims.                                      *)
(***************************************************************************)
Opened == session # "none"

AllFailed == \A i \in 1..Len(attempts) : attempts[i].fd < 0

Attempted(dev) == \E i \in 1..Len(attempts) : attempts[i].dev = dev

FailedBefore(i) == \A j \in 1..(i - 1) : attempts[j].fd < 0

DevRank(dev) ==
    CASE dev = "ttyin_name" -> 1
      [] dev = "ttyname" -> 2
      [] dev = "/dev/tty" -> 3

\* C11 as stated: open_tty returns a non-negative descriptor, and returns
\* descriptor 2 exactly when every open attempt that was made failed.
C11_TwoIffAllFailed ==
    Opened => /\ tty >= 0
              /\ (tty = STDERR_FD <=> AllFailed)

\* C11 amended: open_tty returns a non-negative descriptor; it returns
\* descriptor 2 whenever every open attempt that was made failed; and when
\* descriptor 2 was open at the call, it returns 2 only in that case.
C11_NeverFails ==
    Opened => /\ tty >= 0
              /\ (AllFailed => tty = STDERR_FD)
              /\ (STDERR_FD \in fds_at_open /\ tty = STDERR_FD => AllFailed)

\* Three opens were issued, all failed, and descriptor 2 was returned.
C11_Witness ==
    /\ session = "open"
    /\ Len(attempts) = 3
    /\ AllFailed
    /\ tty = STDERR_FD
    /\ STDERR_FD \in fds_at_open

\* C13: the opens are issued in the order scripted path, ttyname(2) device,
\* /dev/tty; the scripted path is tried exactly when playback is active, the
\* ttyname(2) device only when it resolves, each later candidate only after
\* every earlier attempt failed; no open follows a success, and the value
\* returned is the first descriptor opened, or 2 when none was.
C13_CandidateOrder ==
    Opened =>
        /\ \A i, j \in 1..Len(attempts) :
              i < j => DevRank(attempts[i].dev) < DevRank(attempts[j].dev)
        /\ \A i \in 1..Len(attempts) : FailedBefore(i)
        /\ Attempted("ttyin_name") <=> is_lesstest
        /\ Attempted("ttyname") => ttyname_res = "dev"
        /\ ttyname_res = "dev" => Attempted("ttyname")
        /\ ttyname_res # "notcalled" => have_ttyname
        /\ Attempted("/dev/tty") <=>
              \A i \in 1..Len(attempts) :
                  attempts[i].dev # "/dev/tty" => attempts[i].fd < 0
        /\ IF AllFailed
             THEN tty = STDERR_FD /\ Attempted("/dev/tty")
             ELSE tty = attempts[Len(attempts)].fd

\* The scripted path failed, the ttyname(2) device opened, and nothing was
\* tried after it.
C13_Witness ==
    /\ session = "open"
    /\ Len(attempts) = 2
    /\ attempts[1].dev = "ttyin_name" /\ attempts[1].fd < 0
    /\ attempts[2].dev = "ttyname" /\ attempts[2].fd >= 0
    /\ tty = attempts[2].fd

(***************************************************************************)
(* Vocabulary of the console-mode claims.                                  *)
(***************************************************************************)
\* the flag f (a power of two) is set in the mode x
HasFlag(x, f) == (x \div f) % 2 = 1

\* every bit position of the modes of ConsoleModes
AllFlags == {2 ^ i : i \in 0..9}

\* C12: once opened, init_console_input_mode stays the mode the console was
\* in when open_getchr read it, whatever switches between base and mouse
\* mode and whatever child resets and pclose calls followed; and the mode
\* close_getchr sets is that mode.
C12_CloseRestoresInitial ==
    /\ win32c /\ session # "none" => init_console_input_mode = mode_at_open
    /\ win32c /\ session = "closed" => close_applied = mode_at_open

\* Closed after a switch to mouse mode and a pclose, with the session's
\* current mode different from the one restored.
C12_Witness ==
    /\ win32c
    /\ session = "closed"
    /\ pclosed
    /\ curr_console_input_mode = mouse_console_input_mode
    /\ curr_console_input_mode # mode_at_open
    /\ close_applied = mode_at_open
    /\ console_mode = mode_at_open

\* what open_getchr leaves, in terms of single bits
ModesDerived ==
    /\ \A f \in AllFlags :
          HasFlag(base_console_input_mode, f) <=>
              \/ f = ENABLE_PROCESSED_INPUT
              \/ f # ENABLE_VIRTUAL_TERMINAL_INPUT
                    /\ HasFlag(init_console_input_mode, f)
    /\ \A f \in AllFlags :
          HasFlag(mouse_console_input_mode, f) <=>
              \/ f \in {ENABLE_MOUSE_INPUT, ENABLE_EXTENDED_FLAGS}
              \/ f # ENABLE_QUICK_EDIT_MODE
                    /\ HasFlag(base_console_input_mode, f)
    /\ curr_console_input_mode = base_console_input_mode
    /\ console_mode = base_console_input_mode

\* C17: the step open_getchr takes on the console platform leaves the base
\* mode equal to the initial mode with ENABLE_PROCESSED_INPUT set and
\* ENABLE_VIRTUAL_TERMINAL_INPUT cleared, the mouse mode equal to the base
\* mode with ENABLE_MOUSE_INPUT and ENABLE_EXTENDED_FLAGS set and
\* ENABLE_QUICK_EDIT_MODE cleared, every other bit unchanged, and the base
\* mode as the current and applied mode.
C17_ModesAtOpen ==
    [][win32c /\ session = "none" /\ session' = "open"
          => /\ init_console_input_mode' = console_mode
             /\ ModesDerived']_vars

\* Just opened from a mode with VT input and quick edit on and processed
\* input off.
C17_Witness ==
    /\ win32c
    /\ session = "open"
    /\ ~pclosed /\ child = "none"
    /\ HasFlag(init_console_input_mode, ENABLE_VIRTUAL_TERMINAL_INPUT)
    /\ HasFlag(init_console_input_mode, ENABLE_QUICK_EDIT_MODE)
    /\ ~HasFlag(init_console_input_mode, ENABLE_PROCESSED_INPUT)
    /\ ~HasFlag(init_console_input_mode, ENABLE_MOUSE_INPUT)
    /\ ModesDerived

\* C18: while the session is open, once pclose has returned and no child is
\* running, the console is in curr_console_input_mode; and pclose returned
\* what _pclose gave it.
C18_PcloseReappliesCurrent ==
    /\ win32c /\ session = "open" /\ pclosed /\ child = "none"
          => console_mode = curr_console_input_mode
    /\ pclosed => pclose_ret = pclose_res

\* pclose has just returned 1 in mouse mode after the child had left the
\* console in another mode.
C18_Witness ==
    /\ win32c /\ session = "open" /\ pclosed /\ child = "none"
    /\ curr_console_input_mode = mouse_console_input_mode
    /\ child_left # curr_console_input_mode
    /\ console_mode = curr_console_input_mode
    /\ pclose_ret = 1

(***************************************************************************)
(* C14: every read of the keyboard device a getchr call makes, the first   *)
(* and each retry, comes immediately after a flush(): in the calls of the  *)
(* current getchr call, each iread has a flush just before it.             *)
(***************************************************************************)
C14_FlushBeforeRead ==
    \A i \in 1..Len(ops) :
        ops[i] = "iread" => i > 1 /\ ops[i - 1] = "flush"

\* One call that read end of stream, then a dump byte, and is reading for
\* the third time.
C14_Witness ==
    /\ lesstest
    /\ pc = "reading"
    /\ ttypos = 2
    /\ ttyhist[1] = EofEv
    /\ ttyhist[2] = Byte(LESS_DUMP_CHAR)
    /\ ops = <<"flush", "iread", "flush", "iread", "dump_screen", "flush",
               "iread">>

(***************************************************************************)
(* C15: with LESSTEST compiled in, the step that reads LESS_DUMP_CHAR from *)
(* the device calls dump_screen() once, returns nothing and goes on to     *)
(* flush and read the device again; and a call blocked in the read ends    *)
(* only on an interrupt, a fatal error or a byte that is not the dump      *)
(* byte.                                                                   *)
(***************************************************************************)
C15_DumpByteSwallowed ==
    [][/\ lesstest /\ DevDeliversByte(LESS_DUMP_CHAR)
          => /\ ops' = ops \o <<"dump_screen", "flush", "iread">>
             /\ rets' = rets
             /\ pc' = "reading"
       /\ lesstest /\ pc = "reading" /\ pc' # "reading"
          => \/ sigs # 0
             \/ DevDelivers("err")
             \/ \E b \in TtyBytes \ {LESS_DUMP_CHAR} : DevDeliversByte(b)]_vars

\* A call swallowed the dump byte and then returned the byte after it.
C15_Witness ==
    /\ lesstest
    /\ pc = "idle"
    /\ ttypos = 2
    /\ ttyhist[1] = Byte(LESS_DUMP_CHAR)
    /\ ttyhist[2] = Byte(113)
    /\ ops = <<"flush", "iread", "dump_screen", "flush", "iread">>
    /\ rets = <<Ret("tty", 113)>>

(***************************************************************************)
(* C16: a getchr call that finds the alternate string at its terminating   *)
(* null sets active_dashp_command to NULL.  With add_newline set it        *)
(* returns '\n', clears add_newline and reads nothing, and no newline was  *)
(* returned for the string before; with add_newline clear it leaves        *)
(* add_newline alone and goes on, in the same call, to the stderr fallback *)
(* or to the device loop.  As claimed (C16_ReturnsCharacter) that call     *)
(* then returns a character of the read path; in the code                  *)
(* (C16_AtTerminator) it ends as the read path ends: with a byte of stderr *)
(* or of the device, with EOF, with READ_INTR, or in quit.                 *)
(***************************************************************************)
\* This step starts a getchr call with the cursor at the terminating null.
AtTerminator ==
    /\ pc = "idle"
    /\ active_dashp_command # NULL
    /\ AltDeref(active_dashp_command) = 0
    /\ GetchrSteps

\* What the step of AtTerminator does, up to the return or the blocking read.
TerminatorStep ==
    AtTerminator =>
        /\ active_dashp_command' = NULL
        /\ add_newline # 0 =>
              /\ rets' = Append(rets, Ret("newline", NEWLINE))
              /\ add_newline' = 0
              /\ Returned("newline") = <<>>
              /\ ops' = <<>>
              /\ pc' = "idle"
              /\ ttypos' = ttypos /\ errcons' = errcons
        /\ add_newline = 0 =>
              /\ add_newline' = 0
              /\ \/ pc' = "reading" /\ rets' = rets
                 \/ /\ pc' = "idle"
                    /\ Len(rets') = Len(rets) + 1
                    /\ rets'[Len(rets')].src \in {"stderr", "stderr_eof"}

\* The call that found the end of a string installed without the newline:
\* its number among the returns, whether it has begun, and whether it has
\* returned.
FellCall == install_at + Len(dashp_buf) + 1
FellBegun ==
    /\ dashp_installed /\ installed_nl = 0
    /\ active_dashp_command = NULL
    /\ Len(rets) >= FellCall - 1
FellReturned == FellBegun /\ Len(rets) >= FellCall

\* C16 as stated: the call that falls through returns a character from the
\* normal read path.
C16_ReturnsCharacter ==
    [][/\ TerminatorStep
       /\ (FellReturned => rets[FellCall].src \in {"stderr", "tty"})'
       /\ (FellBegun /\ ~FellReturned => pc # "quit")']_vars

\* C16 amended: the call that falls through ends as the normal read path
\* ends: it returns a byte of stderr or of the device, or EOF from the
\* stderr fallback, or READ_INTR, or it does not return because the device
\* read failed and quit was called.
C16_AtTerminator ==
    [][/\ TerminatorStep
       /\ (FellReturned =>
              \/ rets[FellCall].src \in {"stderr", "tty"}
              \/ rets[FellCall] = Ret("stderr_eof", EOF)
              \/ rets[FellCall] = Ret("intr", READ_INTR))'
       /\ (FellBegun /\ ~FellReturned /\ pc = "quit"
              => quit_status = QUIT_ERROR /\ ops[Len(ops)] = "quit")']_vars

\* A one-character string installed without the newline ran out and the
\* call that found its end came back with READ_INTR from the device read;
\* add_newline is still clear.
C16_Witness ==
    /\ FellReturned
    /\ Len(dashp_buf) = 1
    /\ rets[FellCall] = Ret("intr", READ_INTR)
    /\ Returned("newline") = <<>>
    /\ add_newline = 0

(***************************************************************************)
(* C19: the call in which a read of stderr returns 0 after a byte of the   *)
(* fallback buffer had been delivered returns EOF and leaves use_stderr    *)
(* true; from then on every call the alternate string does not serve,      *)
(* is_tty and less_is_more being set, returns EOF without a poll, a read   *)
(* of stderr or a read of the device, and use_stderr stays true.           *)
(***************************************************************************)
C19_EofSticks ==
    [][/\ err_midfail # "read0" /\ err_midfail' = "read0"
          => /\ rets' = Append(rets, Ret("stderr_eof", EOF))
             /\ ops' = <<"poll", "read">>
             /\ pc' = "idle"
             /\ use_stderr'
       /\ err_midfail = "read0" /\ CallPastDashp
             /\ is_tty # 0 /\ less_is_more # 0
          => /\ rets' = Append(rets, Ret("stderr_eof", EOF))
             /\ ops' = <<>>
             /\ pc' = "idle"
             /\ errcons' = errcons
             /\ ttypos' = ttypos
             /\ use_stderr'
             /\ err_midfail' = "read0"]_vars

\* A byte of stderr was returned, the next read gave 0, and two calls
\* have returned EOF since, the second without any I/O.
C19_Witness ==
    /\ err_midfail = "read0"
    /\ use_stderr
    /\ Len(Returned("stderr")) >= 1
    /\ Len(Returned("stderr_eof")) = 2
    /\ LastRet = Ret("stderr_eof", EOF)
    /\ ops = <<>>
    /\ ttypos = 0

(***************************************************************************)
(* C20: every call that returns errbuf[errpos] reads it inside the part of *)
(* the array the last read filled: at the access, 0 <= errpos < errbuf_sz  *)
(* <= 512 (errpos has been incremented by the time the step ends).         *)
(***************************************************************************)
\* This step returns a byte of errbuf.
ErrbufAccess ==
    /\ Len(rets') = Len(rets) + 1
    /\ rets'[Len(rets')].src = "stderr"

C20_ErrbufInBounds ==
    [][ErrbufAccess =>
        /\ 0 <= errpos' - 1
        /\ errpos' - 1 < errbuf_sz'
        /\ errbuf_sz' <= ERRBUF_SIZE
        /\ errbuf_sz' <= Len(errbuf')]_vars

\* A read filled all 512 bytes of errbuf and three of them were returned;
\* one byte is still waiting in the stream.
C20_Witness ==
    /\ errbuf_sz = ERRBUF_SIZE
    /\ errpos = 3
    /\ Len(Returned("stderr")) = 3
    /\ Len(ErrPending) = 1
    /\ use_stderr
====
